---- MODULE Spec2Model ----
(***************************************************************************)
(* MC88100 subset simulator with a cache directory                         *)
(* ("MC88100 Simulator with Cache/sim.c"), as a state machine.             *)
(*                                                                         *)
(* A C int is a TLA+ integer in -2^31 .. 2^31-1 (its two's complement      *)
(* value); an unsigned int is kept as the int with the same 32 bits.  TLC  *)
(* computes with 32-bit integers itself, so the 32-bit operations below    *)
(* are written so that no intermediate value leaves that range.            *)
(*                                                                         *)
(* +, - and << on an int wrap around to 32 bits and >> on an int copies    *)
(* the sign bit in, as on every two's complement build.  Two operations of *)
(* the program have no such common outcome and are kept as choices: the    *)
(* read of mem[] at an index outside the array (main's fetch makes no      *)
(* check) and the shift of an int by 32 (rot with a shift amount of 0).    *)
(* assert is taken to be enabled: nothing in the sources defines NDEBUG.   *)
(***************************************************************************)
EXTENDS Integers, Sequences, FiniteSets, TLC

(* ------------------------- 32-bit arithmetic --------------------------- *)

MinInt == -2147483647 - 1

\* a + b truncated to 32 bits (two 16-bit halves, carry between them)
Add32(a, b) ==
  LET lo  == (a % 65536) + (b % 65536)
      hi  == (a \div 65536) + (b \div 65536) + (lo \div 65536)
      hiw == ((hi + 32768) % 65536) - 32768
  IN  hiw * 65536 + (lo % 65536)

\* a - b truncated to 32 bits
Sub32(a, b) ==
  LET lo  == (a % 65536) - (b % 65536)
      hi  == (a \div 65536) - (b \div 65536) + (lo \div 65536)
      hiw == ((hi + 32768) % 65536) - 32768
  IN  hiw * 65536 + (lo % 65536)

\* the low 31 bits of a, as a number 0 .. 2^31-1
Low31(a) == IF a < 0 THEN a - MinInt ELSE a

\* a << n truncated to 32 bits, 0 <= n <= 31
Shl32(a, n) ==
  IF n = 0 THEN a
  ELSE LET l == Low31(a)
           p == 2 ^ (31 - n)
       IN  (IF n = 31 THEN 0 ELSE (l % p) * (2 ^ n))
             + (IF (l \div p) % 2 = 1 THEN MinInt ELSE 0)

\* a >> n on a signed int: the sign bit is copied in (0 <= n <= 31)
Sar32(a, n) ==
  IF n = 31 THEN (IF a < 0 THEN -1 ELSE 0) ELSE a \div (2 ^ n)

\* u >> n on an unsigned int: zeros are shifted in (0 <= n <= 31)
Shr32(a, n) ==
  IF n = 0 THEN a
  ELSE Sar32(Low31(a), n) + (IF a < 0 THEN 2 ^ (31 - n) ELSE 0)

\* x | y for x, y in 0 .. 15
Or4(x, y) ==
  LET bit(i) == IF (x \div i) % 2 = 1 \/ (y \div i) % 2 = 1 THEN i ELSE 0
  IN  bit(1) + bit(2) + bit(4) + bit(8)

RECURSIVE Or32(_, _)
\* a | b, four bits at a time
Or32(a, b) ==
  IF a = 0 THEN b
  ELSE IF b = 0 THEN a
  ELSE IF a = -1 \/ b = -1 THEN -1
  ELSE 16 * Or32(a \div 16, b \div 16) + Or4(a % 16, b % 16)

\* the int with the 32 bits of the unsigned number hi*2^16 + lo
Word(hi, lo) == (IF hi >= 32768 THEN hi - 65536 ELSE hi) * 65536 + lo

(* ------------------------------ bounds --------------------------------- *)

\* instructions fetched in one run of the model
MaxSteps == 5

\* cache_access calls in one run of the cache directory alone
MaxAccesses == 4

\* cache_access and cache_stats calls in one run of the two together
MaxCalls == 3

(* ----------------------------- constants ------------------------------- *)

LINES_PER_BANK == 64

INPUT_WORD_LIMIT == 255

MEM_SIZE_IN_WORDS == 256 * 1024

Banks == 0 .. 1

Lines == 0 .. (LINES_PER_BANK - 1)

(* ------------------------------- state --------------------------------- *)

VARIABLES
  stdin,          \* the words of the input that get_mem has not read yet
  mem,            \* int mem[]: word index -> word; an index not in the
                  \* domain holds 0 (the array is zero-initialised)
  reg,            \* int reg[32]
  xip, fip,       \* execute / fetch instruction pointers
  halt_flag,
  ir, op1, op2, d, s1, s2, imm16, scaled,
  inst_fetches, memory_reads, memory_writes, branches, taken_branches,
  valid, dirty, tag, lru,
  cache_reads, cache_writes, hits, misses, write_backs,
  outcome,        \* how the process stands: "start" (main is entered),
                  \* "running" (the main loop), "exit_0" (main returned
                  \* 0), "too_many_words" (get_mem called exit(0)),
                  \* "exit_fail" (exit(-1)), "abort" (a failed assert),
                  \* "crash" (an out-of-bounds fetch trapped)
  printed,        \* the reports cache_stats has printed so far
  calls,          \* the cache_access calls made so far, <<address, type>>
  undef           \* the undefined operations evaluated so far

decoded == <<ir, op1, op2, d, s1, s2, imm16, scaled>>

counters ==
  <<inst_fetches, memory_reads, memory_writes, branches, taken_branches>>

directory == <<valid, dirty, tag, lru>>

cache_counters == <<cache_reads, cache_writes, hits, misses, write_backs>>

cache == <<valid, dirty, tag, lru,
           cache_reads, cache_writes, hits, misses, write_backs, calls,
           printed>>

cpu == <<stdin, mem, reg, xip, fip, halt_flag, ir, op1, op2, d, s1, s2,
         imm16, scaled, inst_fetches, memory_reads, memory_writes, branches,
         taken_branches, outcome, undef>>

vars == <<stdin, mem, reg, xip, fip, halt_flag, ir, op1, op2, d, s1, s2,
          imm16, scaled, inst_fetches, memory_reads, memory_writes, branches,
          taken_branches, valid, dirty, tag, lru, cache_reads,
          cache_writes, hits, misses, write_backs, outcome, calls, printed,
          undef>>

(* --------------------------- cache directory --------------------------- *)

\* cache_init: every line invalid, clean, tag 0; every counter 0
cache_init ==
  /\ lru = [i \in Lines |-> 0]
  /\ valid = [b \in Banks |-> [i \in Lines |-> 0]]
  /\ dirty = [b \in Banks |-> [i \in Lines |-> 0]]
  /\ tag = [b \in Banks |-> [i \in Lines |-> 0]]
  /\ cache_reads = 0
  /\ cache_writes = 0
  /\ hits = 0
  /\ misses = 0
  /\ write_backs = 0
  /\ calls = <<>>
  /\ printed = <<>>

\* the call cache_init() of main
do_cache_init ==
  /\ lru' = [i \in Lines |-> 0]
  /\ valid' = [b \in Banks |-> [i \in Lines |-> 0]]
  /\ dirty' = [b \in Banks |-> [i \in Lines |-> 0]]
  /\ tag' = [b \in Banks |-> [i \in Lines |-> 0]]
  /\ cache_reads' = 0
  /\ cache_writes' = 0
  /\ hits' = 0
  /\ misses' = 0
  /\ write_backs' = 0
  /\ UNCHANGED <<calls, printed>>

\* addr_index = (address >> 3) & 0x3f
addr_index(address) == Shr32(address, 3) % 64

\* addr_tag = address >> 9
addr_tag(address) == Shr32(address, 9)

bank_hit_bank_0_only(b, index, t) ==
  b = 0 /\ valid[b][index] # 0 /\ t = tag[b][index]

bank_hit_ignores_valid(b, index, t) == tag[b][index] = t

\* valid[b][addr_index] && (addr_tag == tag[b][addr_index])
bank_hit(b, index, t) == valid[b][index] # 0 /\ t = tag[b][index]

replacement_bank_most_recent(index) ==
  IF valid[0][index] = 0 THEN 0
  ELSE IF valid[1][index] = 0 THEN 1
  ELSE IF lru[index] # 0 THEN 1 ELSE 0

\* the bank chosen for replacement on a miss
replacement_bank(index) ==
  IF valid[0][index] = 0 THEN 0
  ELSE IF valid[1][index] = 0 THEN 1
  ELSE IF lru[index] # 0 THEN 0 ELSE 1

needs_write_back_any_valid(b, index) == valid[b][index] # 0

\* if(valid[bank][addr_index] && dirty[bank][addr_index]) write_backs++
needs_write_back(b, index) == valid[b][index] # 0 /\ dirty[b][index] # 0

hits_after_bank_0_only(hit_0, hit_1) == IF hit_0 THEN hits + 1 ELSE hits

\* hits++, in the branch of the bank 0 hit and in that of the bank 1 hit
hits_after(hit_0, hit_1) == IF hit_0 \/ hit_1 THEN hits + 1 ELSE hits

dirty_after_fill_kept(type, hit, old) == IF type = 1 THEN 1 ELSE old

\* the dirty bit of the serviced line: dirty[bank][addr_index] = type on a
\* miss; set by a write hit, left alone by a read hit
dirty_after(type, hit, old) ==
  IF type = 1 THEN 1 ELSE IF hit THEN old ELSE 0

\* cache_access( address, type ): type is read (=0) or write (=1)
cache_access(address, type) ==
  LET index == addr_index(address)
      t     == addr_tag(address)
      hit   == bank_hit(0, index, t) \/ bank_hit(1, index, t)
      bank  == IF bank_hit(0, index, t) THEN 0
               ELSE IF bank_hit(1, index, t) THEN 1
               ELSE replacement_bank(index)
  IN  /\ cache_reads' = IF type = 0 THEN cache_reads + 1 ELSE cache_reads
      /\ cache_writes' = IF type = 0 THEN cache_writes ELSE cache_writes + 1
      /\ hits' = hits_after(bank_hit(0, index, t), bank_hit(1, index, t))
      /\ misses' = IF hit THEN misses ELSE misses + 1
      /\ write_backs' = IF ~hit /\ needs_write_back(bank, index)
                        THEN write_backs + 1 ELSE write_backs
      /\ valid' = IF hit THEN valid
                  ELSE [valid EXCEPT ![bank][index] = 1]
      /\ tag' = IF hit THEN tag ELSE [tag EXCEPT ![bank][index] = t]
      /\ lru' = [lru EXCEPT ![index] = bank]
      /\ dirty' = [dirty EXCEPT ![bank][index] = dirty_after(type, hit, @)]
      /\ calls' = Append(calls, <<address, type>>)
      /\ UNCHANGED printed

\* cache_stats(): prints the five counters
cache_stats_and_reset ==
  /\ printed' = Append(printed, cache_counters)
  /\ cache_reads' = 0
  /\ cache_writes' = 0
  /\ hits' = 0
  /\ misses' = 0
  /\ write_backs' = 0
  /\ UNCHANGED <<directory, calls>>

\* cache_stats(): prints the five counters
cache_stats ==
  /\ printed' = Append(printed, cache_counters)
  /\ UNCHANGED <<directory, cache_counters, calls>>

(* ------------------------------- memory -------------------------------- *)

in_memory_off_by_one(word_addr) ==
  word_addr >= 0 /\ word_addr <= MEM_SIZE_IN_WORDS

\* assert( ( word_addr >= 0 ) && ( word_addr < MEM_SIZE_IN_WORDS ) )
in_memory(word_addr) == word_addr >= 0 /\ word_addr < MEM_SIZE_IN_WORDS

\* mem[ word_addr ]
mem_word(word_addr) == IF word_addr \in DOMAIN mem THEN mem[word_addr] ELSE 0

\* mem[ word_addr ] = value
mem_store(word_addr, value) ==
  [i \in DOMAIN mem \cup {word_addr} |->
     IF i = word_addr THEN value ELSE mem[i]]

zero_r0_skipped(r) == r

\* reg[ 0 ] = 0, at the end of every pass of the main loop
zero_r0(r) == [r EXCEPT ![0] = 0]

\* read_mem( eff_addr, reg_index ) at the end of the pass; a failed assert
\* aborts the process before anything is changed
read_mem(eff_addr, reg_index) ==
  LET word_addr == Sar32(eff_addr, 2)
  IN  IF in_memory(word_addr)
      THEN /\ reg' = zero_r0([reg EXCEPT ![reg_index] = mem_word(word_addr)])
           /\ memory_reads' = memory_reads + 1
           /\ outcome' = "running"
           /\ UNCHANGED <<mem, memory_writes>>
      ELSE /\ outcome' = "abort"
           /\ UNCHANGED <<reg, mem, memory_reads, memory_writes>>

\* write_mem( eff_addr, reg_index ), likewise
write_mem(eff_addr, reg_index) ==
  LET word_addr == Sar32(eff_addr, 2)
  IN  IF in_memory(word_addr)
      THEN /\ mem' = mem_store(word_addr, reg[reg_index])
           /\ memory_writes' = memory_writes + 1
           /\ reg' = zero_r0(reg)
           /\ outcome' = "running"
           /\ UNCHANGED memory_reads
      ELSE /\ outcome' = "abort"
           /\ UNCHANGED <<reg, mem, memory_reads, memory_writes>>

then_cache_access_skipped(address, type) == UNCHANGED cache

\* the handler's cache_access( address, type ), reached only when the
\* assert of read_mem / write_mem held
then_cache_access(address, type) ==
  IF in_memory(Sar32(address, 2))
  THEN cache_access(address, type)
  ELSE UNCHANGED cache

(* ------------------------------- decode -------------------------------- *)

Op1_bits_31_to_27(w) == Sar32(w, 27) % 64

\* op1 = ( ir >> 26 ) & 0x3f
Op1(w) == Sar32(w, 26) % 64

\* op2 = ( ir >> 10 ) & 0x3f
Op2(w) == Sar32(w, 10) % 64

\* d = ( ir >> 21 ) & 0x1f
D(w) == Sar32(w, 21) % 32

\* s1 = ( ir >> 16 ) & 0x1f
S1(w) == Sar32(w, 16) % 32

\* s2 = ir & 0x1f
S2(w) == w % 32

\* imm16 = ir & 0xffff
Imm16(w) == w % 65536

\* scaled = ( ir >> 9 ) & 1
Scaled(w) == Sar32(w, 9) % 2

decode(w) ==
  /\ op1' = Op1(w)
  /\ op2' = Op2(w)
  /\ d' = D(w)
  /\ s1' = S1(w)
  /\ s2' = S2(w)
  /\ imm16' = Imm16(w)
  /\ scaled' = Scaled(w)

(* -------------------------- instruction words -------------------------- *)

\* two registers and a 16-bit immediate
imm_form(op, dd, ss1, imm) == Word(op * 1024 + dd * 32 + ss1, imm)

\* three registers (op1 = 0x3d), or two registers and a 5-bit immediate
\* (op1 = 0x3c)
tri_form(op, o2, dd, ss1, sc, ss2) ==
  Word(op * 1024 + dd * 32 + ss1, o2 * 1024 + sc * 512 + ss2)

\* br with a displacement of k words
br_form(k) ==
  LET d26 == k % 67108864
  IN  Word(48 * 1024 + (d26 \div 65536), d26 % 65536)

\* bcnd with mask m on register ss1 and a displacement of k words
bcnd_form(m, ss1, k) == Word(58 * 1024 + m * 32 + ss1, k % 65536)

(* ------------------------------ main loop ------------------------------ *)

\* while( !halt_flag ), in a process that has not ended
Running ==
  /\ outcome = "running"
  /\ halt_flag = 0
  /\ inst_fetches < MaxSteps

\* whether mem[ word_addr ] is an element of int mem[MEM_SIZE_IN_WORDS]
inside_mem_array(word_addr) ==
  word_addr >= 0 /\ word_addr < MEM_SIZE_IN_WORDS

\* what a read past either end of mem[] may deliver when it does not trap:
\* a halt, a word with no handler, an add
UBWords == {0, Word(23681, 16), imm_form(28, 1, 1, 1)}

\* ir = mem[ fip >> 2 ]: the word of the array, or, for an index outside
\* the array (no check is made), whatever the read delivers
Fetched ==
  IF inside_mem_array(Sar32(fip, 2))
  THEN {mem_word(Sar32(fip, 2))}
  ELSE UBWords

\* the undefined operations evaluated once the fetch is done
fetch_undef ==
  IF inside_mem_array(Sar32(fip, 2)) THEN undef
  ELSE undef \cup {"fetch outside mem[]"}

\* ir = mem[ fip >> 2 ]; xip = fip; fip = xip + 4; inst_fetches++; decode()
\* (fip' is written by the handler's action: xip + 4 unless a branch is taken)
fetch(w) ==
  /\ Running
  /\ w \in Fetched
  /\ ir' = w
  /\ xip' = fip
  /\ inst_fetches' = inst_fetches + 1
  /\ decode(w)
  /\ UNCHANGED stdin

\* an out-of-bounds fetch that traps
fetch_crash ==
  /\ Running
  /\ ~inside_mem_array(Sar32(fip, 2))
  /\ outcome' = "crash"
  /\ undef' = undef \cup {"fetch outside mem[]"}
  /\ UNCHANGED <<stdin, mem, reg, xip, fip, halt_flag, decoded, counters,
                 cache>>

halt_ignored ==
  \E w \in Fetched :
    /\ fetch(w)
    /\ Op1(w) = 0
    /\ outcome' = "running"
    /\ fip' = Add32(fip, 4)
    /\ reg' = zero_r0(reg)
    /\ undef' = fetch_undef
    /\ UNCHANGED <<mem, halt_flag, memory_reads, memory_writes, branches,
                   taken_branches, cache>>

\* halt_flag = 1: the loop ends, main prints the statistics, calls
\* cache_stats() and returns 0
halt ==
  \E w \in Fetched :
    /\ fetch(w)
    /\ Op1(w) = 0
    /\ halt_flag' = 1
    /\ outcome' = "exit_0"
    /\ fip' = Add32(fip, 4)
    /\ reg' = zero_r0(reg)
    /\ undef' = fetch_undef
    /\ cache_stats
    /\ UNCHANGED <<mem, memory_reads, memory_writes, branches,
                   taken_branches>>

imm_ld ==
  \E w \in Fetched :
    /\ fetch(w)
    /\ Op1(w) = 5
    /\ LET address == Add32(reg[S1(w)], Imm16(w))
       IN  /\ read_mem(address, D(w))
           /\ then_cache_access(address, 0)
    /\ fip' = Add32(fip, 4)
    /\ undef' = fetch_undef
    /\ UNCHANGED <<halt_flag, branches, taken_branches>>

imm_st ==
  \E w \in Fetched :
    /\ fetch(w)
    /\ Op1(w) = 9
    /\ LET address == Add32(reg[S1(w)], Imm16(w))
       IN  /\ write_mem(address, D(w))
           /\ then_cache_access(address, 1)
    /\ fip' = Add32(fip, 4)
    /\ undef' = fetch_undef
    /\ UNCHANGED <<halt_flag, branches, taken_branches>>

\* a handler that only writes reg[ d ]
writes_reg(w, value) ==
  /\ reg' = zero_r0([reg EXCEPT ![D(w)] = value])
  /\ fip' = Add32(fip, 4)
  /\ undef' = fetch_undef
  /\ outcome' = "running"
  /\ UNCHANGED <<mem, halt_flag, memory_reads, memory_writes, branches,
                 taken_branches, cache>>

imm_lda ==
  \E w \in Fetched :
    /\ fetch(w)
    /\ Op1(w) = 13
    /\ writes_reg(w, Add32(reg[S1(w)], Imm16(w)))

imm_add ==
  \E w \in Fetched :
    /\ fetch(w)
    /\ Op1(w) = 28
    /\ writes_reg(w, Add32(reg[S1(w)], Imm16(w)))

imm_sub ==
  \E w \in Fetched :
    /\ fetch(w)
    /\ Op1(w) = 29
    /\ writes_reg(w, Sub32(reg[S1(w)], Imm16(w)))

displacement_unchecked(field) == TRUE

\* assert( d26 != 0 ) in br, assert( d16 != 0 ) in bcnd
displacement_ok(field) == field # 0

br_target_in_bytes(x, disp) == Add32(x, disp)

br_target_from_fip(x, disp) == Add32(Add32(x, 4), Shl32(disp, 2))

\* xip + (disp << 2)
br_target(x, disp) == Add32(x, Shl32(disp, 2))

br ==
  \E w \in Fetched :
    /\ fetch(w)
    /\ Op1(w) = 48
    /\ LET d26 == w % 67108864
       IN  IF displacement_ok(d26)
           THEN /\ fip' = br_target(fip, Sar32(Shl32(d26, 6), 6))
                /\ branches' = branches + 1
                /\ taken_branches' = taken_branches + 1
                /\ reg' = zero_r0(reg)
                /\ outcome' = "running"
           ELSE /\ outcome' = "abort"
                /\ fip' = Add32(fip, 4)
                /\ UNCHANGED <<reg, branches, taken_branches>>
    /\ undef' = fetch_undef
    /\ UNCHANGED <<mem, halt_flag, memory_reads, memory_writes, cache>>

bcnd_flag_bits_swapped(r) ==
  LET sign == Shr32(r, 31)
      zero == IF Shl32(r, 1) = 0 THEN 1 ELSE 0
  IN  Or32(Shl32(zero, 1), sign)

bcnd_flag_zero_by_compare(r) ==
  LET sign == Shr32(r, 31)
      zero == IF r = 0 THEN 1 ELSE 0
  IN  Or32(Shl32(sign, 1), zero)

\* flag = (sign << 1) | zero
bcnd_flag(r) ==
  LET sign == Shr32(r, 31)
      zero == IF Shl32(r, 1) = 0 THEN 1 ELSE 0
  IN  Or32(Shl32(sign, 1), zero)

bcnd_taken_inverted(mask, r) == Shr32(mask, bcnd_flag(r)) % 2 = 0

\* (1 & ((unsigned int)d >> flag)) == 1
bcnd_taken(mask, r) == Shr32(mask, bcnd_flag(r)) % 2 = 1

bcnd ==
  \E w \in Fetched :
    /\ fetch(w)
    /\ Op1(w) = 58
    /\ LET d16 == w % 65536
       IN  IF displacement_ok(d16)
           THEN /\ branches' = branches + 1
                /\ IF bcnd_taken(D(w), reg[S1(w)])
                   THEN /\ fip' = br_target(fip, Sar32(Shl32(d16, 16), 16))
                        /\ taken_branches' = taken_branches + 1
                   ELSE /\ fip' = Add32(fip, 4)
                        /\ UNCHANGED taken_branches
                /\ reg' = zero_r0(reg)
                /\ outcome' = "running"
           ELSE /\ outcome' = "abort"
                /\ fip' = Add32(fip, 4)
                /\ UNCHANGED <<reg, branches, taken_branches>>
    /\ undef' = fetch_undef
    /\ UNCHANGED <<mem, halt_flag, memory_reads, memory_writes, cache>>

ext_zero_fills ==
  \E w \in Fetched :
    /\ fetch(w)
    /\ Op1(w) = 60 /\ Op2(w) = 36
    /\ writes_reg(w, Shr32(reg[S1(w)], S2(w)))

ext ==
  \E w \in Fetched :
    /\ fetch(w)
    /\ Op1(w) = 60 /\ Op2(w) = 36
    /\ writes_reg(w, Sar32(reg[S1(w)], S2(w)))

extu ==
  \E w \in Fetched :
    /\ fetch(w)
    /\ Op1(w) = 60 /\ Op2(w) = 38
    /\ writes_reg(w, Shr32(reg[S1(w)], S2(w)))

mak ==
  \E w \in Fetched :
    /\ fetch(w)
    /\ Op1(w) = 60 /\ Op2(w) = 40
    /\ writes_reg(w, Shl32(reg[S1(w)], S2(w)))

\* value << count on an int: for count = 32, the width of the type, the
\* shift is undefined; machines either use the count modulo 32 (value) or
\* shift every bit out (0)
shl_outcomes(value, count) ==
  IF count < 32 THEN {Shl32(value, count)} ELSE {value, 0}

\* lhs | (reg[s1] >> s2), reg[s1] an int
rot_value(value, lhs, n) == Or32(lhs, Sar32(value, n))

rot ==
  \E w \in Fetched :
    /\ fetch(w)
    /\ Op1(w) = 60 /\ Op2(w) = 42
    /\ \E lhs \in shl_outcomes(reg[S1(w)], 32 - S2(w)) :
         reg' = zero_r0([reg EXCEPT ![D(w)] =
                           rot_value(reg[S1(w)], lhs, S2(w))])
    /\ fip' = Add32(fip, 4)
    /\ undef' = fetch_undef \cup
                  (IF S2(w) = 0 THEN {"shift by 32"} ELSE {})
    /\ outcome' = "running"
    /\ UNCHANGED <<mem, halt_flag, memory_reads, memory_writes, branches,
                   taken_branches, cache>>

\* reg[s1] + (reg[s2] << 2) if scaled, reg[s1] + reg[s2] otherwise
indexed_address(w) ==
  IF Scaled(w) = 1
  THEN Add32(reg[S1(w)], Shl32(reg[S2(w)], 2))
  ELSE Add32(reg[S1(w)], reg[S2(w)])

ld ==
  \E w \in Fetched :
    /\ fetch(w)
    /\ Op1(w) = 61 /\ Op2(w) = 5
    /\ read_mem(indexed_address(w), D(w))
    /\ then_cache_access(indexed_address(w), 0)
    /\ fip' = Add32(fip, 4)
    /\ undef' = fetch_undef
    /\ UNCHANGED <<halt_flag, branches, taken_branches>>

st ==
  \E w \in Fetched :
    /\ fetch(w)
    /\ Op1(w) = 61 /\ Op2(w) = 9
    /\ write_mem(indexed_address(w), D(w))
    /\ then_cache_access(indexed_address(w), 1)
    /\ fip' = Add32(fip, 4)
    /\ undef' = fetch_undef
    /\ UNCHANGED <<halt_flag, branches, taken_branches>>

lda_dereferences ==
  \E w \in Fetched :
    /\ fetch(w)
    /\ Op1(w) = 61 /\ Op2(w) = 13
    /\ read_mem(indexed_address(w), D(w))
    /\ then_cache_access(indexed_address(w), 0)
    /\ fip' = Add32(fip, 4)
    /\ undef' = fetch_undef
    /\ UNCHANGED <<halt_flag, branches, taken_branches>>

lda ==
  \E w \in Fetched :
    /\ fetch(w)
    /\ Op1(w) = 61 /\ Op2(w) = 13
    /\ writes_reg(w, indexed_address(w))

add ==
  \E w \in Fetched :
    /\ fetch(w)
    /\ Op1(w) = 61 /\ Op2(w) = 28
    /\ writes_reg(w, Add32(reg[S1(w)], reg[S2(w)]))

sub ==
  \E w \in Fetched :
    /\ fetch(w)
    /\ Op1(w) = 61 /\ Op2(w) = 29
    /\ writes_reg(w, Sub32(reg[S1(w)], reg[S2(w)]))

\* the switch of main: whether a handler exists for the word
has_handler(w) ==
  \/ Op1(w) \in {0, 5, 9, 13, 28, 29, 48, 58}
  \/ Op1(w) = 60 /\ Op2(w) \in {36, 38, 40, 42}
  \/ Op1(w) = 61 /\ Op2(w) \in {5, 9, 13, 28, 29}

unknown_op_goes_on ==
  \E w \in Fetched :
    /\ fetch(w)
    /\ ~has_handler(w)
    /\ outcome' = "running"
    /\ fip' = Add32(fip, 4)
    /\ undef' = fetch_undef
    /\ UNCHANGED <<mem, reg, halt_flag, memory_reads, memory_writes,
                   branches, taken_branches, cache>>

\* exit( -1 )
unknown_op ==
  \E w \in Fetched :
    /\ fetch(w)
    /\ ~has_handler(w)
    /\ outcome' = "exit_fail"
    /\ fip' = Add32(fip, 4)
    /\ undef' = fetch_undef
    /\ UNCHANGED <<mem, reg, halt_flag, memory_reads, memory_writes,
                   branches, taken_branches, cache>>

(* --------------------------- memory images ----------------------------- *)

\* ld r1,r0,0x10: the word 0x14200010
LdR1 == imm_form(5, 1, 0, 16)

\* the word at address 0x10, which the programs load
DataWords ==
  {0, 1, -1, MinInt, 2147483647, 1048576, 1048572, Word(4660, 22136)}

\* first words of the programs that do not start with ld r1,r0,0x10
FirstWords ==
  { 0,                              \* halt
    Word(23681, 16),                \* 0x5c810010: no handler
    imm_form(5, 0, 0, 16),          \* ld   r0,r0,0x10
    imm_form(9, 0, 0, 16),          \* st   r0,r0,0x10
    imm_form(13, 0, 0, 7),          \* lda  r0,r0,7
    imm_form(28, 0, 0, 5),          \* add  r0,r0,5
    imm_form(29, 0, 0, 5),          \* sub  r0,r0,5
    imm_form(29, 1, 0, 4),          \* sub  r1,r0,4
    br_form(2), br_form(-1), br_form(0) }

\* second words
SecondWords ==
  { 0,
    tri_form(60, 41, 2, 1, 0, 0),   \* op1 = 0x3c, op2 = 0x29: no handler
    tri_form(61, 6, 2, 1, 0, 0),    \* op1 = 0x3d, op2 = 0x06: no handler
    imm_form(5, 2, 1, 0),           \* ld   r2,r1,0
    imm_form(5, 2, 0, 20),          \* ld   r2,r0,0x14
    imm_form(9, 1, 1, 0),           \* st   r1,r1,0
    imm_form(9, 1, 0, 528),         \* st   r1,r0,0x210
    imm_form(13, 2, 1, 65535),      \* lda  r2,r1,0xffff
    imm_form(13, 0, 1, 0),          \* lda  r0,r1,0
    imm_form(28, 2, 1, 65535),      \* add  r2,r1,0xffff
    imm_form(29, 2, 1, 1),          \* sub  r2,r1,1
    tri_form(61, 5, 2, 0, 0, 1),    \* ld   r2,r0,r1
    tri_form(61, 5, 2, 0, 1, 1),    \* ld   r2,r0[r1]
    tri_form(61, 5, 0, 0, 0, 0),    \* ld   r0,r0,r0
    tri_form(61, 5, 0, 0, 1, 1),    \* ld   r0,r0[r1]
    tri_form(61, 9, 1, 0, 0, 1),    \* st   r1,r0,r1
    tri_form(61, 9, 1, 0, 1, 1),    \* st   r1,r0[r1]
    tri_form(61, 13, 2, 1, 0, 1),   \* lda  r2,r1,r1
    tri_form(61, 13, 2, 0, 1, 1),   \* lda  r2,r0[r1]
    tri_form(61, 13, 0, 0, 1, 1),   \* lda  r0,r0[r1]
    tri_form(61, 28, 2, 1, 0, 1),   \* add  r2,r1,r1
    tri_form(61, 28, 0, 1, 0, 1),   \* add  r0,r1,r1
    tri_form(61, 29, 2, 0, 0, 1),   \* sub  r2,r0,r1
    tri_form(61, 29, 0, 0, 0, 1),   \* sub  r0,r0,r1
    br_form(-1), br_form(0), br_form(3) }
  \cup { tri_form(60, 42, 2, 1, 0, n) : n \in {0, 1, 8, 16, 31} }  \* rot
  \cup { tri_form(60, o2, 0, 1, 0, 0) : o2 \in {36, 38, 40, 42} }
  \cup { tri_form(60, o2, 2, 1, 0, n) : o2 \in {36, 38, 40}, n \in {0, 1, 4, 31} }
  \cup { bcnd_form(m, 1, 2) : m \in {0, 1, 2, 3, 4, 8, 12, 13, 14, 15} }
  \cup { bcnd_form(m, 1, 0) : m \in {0, 2, 8, 15} }
  \cup { bcnd_form(15, 1, -1) }

\* third words
ThirdWords ==
  { 0,
    imm_form(5, 3, 0, 16),          \* ld   r3,r0,0x10
    imm_form(5, 3, 2, 0),           \* ld   r3,r2,0
    imm_form(9, 2, 0, 1040),        \* st   r2,r0,0x410
    imm_form(9, 2, 0, 20),          \* st   r2,r0,0x14
    br_form(-2) }
  \cup { tri_form(60, 42, 3, 2, 0, n) : n \in {1, 16, 24, 31} }   \* rot

\* the programs, three words each
Programs ==
  ({LdR1} \X SecondWords \X ThirdWords)
    \cup (FirstWords \X {0, imm_form(5, 2, 0, 16), br_form(-1)} \X {0})

\* the memory after get_mem(): the program at addresses 0, 4 and 8 and a data
\* word at address 0x10; every other word is 0
Image(p, data) ==
  [i \in {0, 1, 2, 4} |-> IF i = 4 THEN data ELSE p[i + 1]]

(* --------------------------- specifications ---------------------------- *)

\* the static initialisers of the processor state and the statistics
cpu_init ==
  /\ reg = [i \in 0 .. 31 |-> 0]
  /\ xip = 0
  /\ fip = 0
  /\ halt_flag = 0
  /\ ir = 0
  /\ op1 = 0
  /\ op2 = 0
  /\ d = 0
  /\ s1 = 0
  /\ s2 = 0
  /\ imm16 = 0
  /\ scaled = 0
  /\ inst_fetches = 0
  /\ memory_reads = 0
  /\ memory_writes = 0
  /\ branches = 0
  /\ taken_branches = 0
  /\ undef = {}

\* the program p at addresses 0, 4 and 8 and a data word at address 0x10
Input(p, data) == <<p[1], p[2], p[3], 0, data>>

\* an input of n halt words
Halts(n) == [i \in 1 .. n |-> 0]

\* the inputs: the programs, the empty input, and inputs of as many words as
\* get_mem takes, one more and two more
Inputs ==
  { Input(p, data) : p \in Programs, data \in DataWords }
    \cup { Halts(n) : n \in {0, INPUT_WORD_LIMIT + 1, INPUT_WORD_LIMIT + 2,
                             INPUT_WORD_LIMIT + 3} }

\* the words get_mem stores: mem[ count ] = w while count <= INPUT_WORD_LIMIT
loaded(input) ==
  LET n == IF Len(input) > INPUT_WORD_LIMIT + 1
           THEN INPUT_WORD_LIMIT + 1 ELSE Len(input)
  IN  [i \in 0 .. n - 1 |-> input[i + 1]]

\* get_mem() and, when it returns, cache_init(): the word read with count >
\* INPUT_WORD_LIMIT ends the process with exit( 0 )
get_mem ==
  /\ outcome = "start"
  /\ mem' = loaded(stdin)
  /\ IF Len(stdin) > INPUT_WORD_LIMIT + 1
     THEN /\ outcome' = "too_many_words"
          /\ stdin' = SubSeq(stdin, INPUT_WORD_LIMIT + 3, Len(stdin))
          /\ UNCHANGED cache
     ELSE /\ outcome' = "running"
          /\ stdin' = <<>>
          /\ do_cache_init
  /\ UNCHANGED <<reg, xip, fip, halt_flag, decoded, counters, undef>>

\* the status the process ends with: 0 from return 0 and exit( 0 ), 255 from
\* exit( -1 ), 134 and 139 from the signals of abort() and of a trap
exit_status(o) ==
  CASE o = "exit_0" -> 0
    [] o = "too_many_words" -> 0
    [] o = "exit_fail" -> 255
    [] o = "abort" -> 134
    [] o = "crash" -> 139

\* main is entered: the static initialisers, nothing read yet
Init ==
  /\ cpu_init
  /\ cache_init
  /\ outcome = "start"
  /\ mem = <<>>
  /\ stdin \in Inputs

Next ==
  \/ get_mem
  \/ halt
  \/ imm_ld
  \/ imm_st
  \/ imm_lda
  \/ imm_add
  \/ imm_sub
  \/ br
  \/ bcnd
  \/ ext
  \/ extu
  \/ mak
  \/ rot
  \/ ld
  \/ st
  \/ lda
  \/ add
  \/ sub
  \/ unknown_op
  \/ fetch_crash

Spec == Init /\ [][Next]_vars

\* byte addresses handed to cache_access when the directory is driven alone:
\* two in one line, three more tags of that set, one in another set
CacheAddresses == {0, 4, 512, 1024, 1536, 8}

\* one call of cache_access
access ==
  \E address \in CacheAddresses, type \in {0, 1} :
    /\ Len(calls) < MaxAccesses
    /\ cache_access(address, type)
    /\ UNCHANGED cpu

\* one call of cache_stats
stats ==
  /\ Len(calls) + Len(printed) < MaxCalls
  /\ cache_stats
  /\ UNCHANGED cpu

\* one call of cache_access between calls of cache_stats
counted_access ==
  /\ Len(calls) + Len(printed) < MaxCalls
  /\ access

\* the directory after cache_init(), no instruction executed
CacheInit ==
  /\ cpu_init
  /\ cache_init
  /\ outcome = "running"
  /\ mem = Image(<<0, 0, 0>>, 0)
  /\ stdin = <<>>

CacheNext == access

CacheSpec == CacheInit /\ [][CacheNext]_vars

StatsNext == counted_access \/ stats

StatsSpec == CacheInit /\ [][StatsNext]_vars

(* ------------------- the simulator without the cache ------------------- *)

\* The second source file is the same program without the cache routines:
\* get_mem is not followed by cache_init, halt is not followed by
\* cache_stats, and the four load and store handlers do not call
\* cache_access. Its steps are written on the processor state alone; the
\* other handlers are those above, word for word.

plain_get_mem ==
  /\ outcome = "start"
  /\ mem' = loaded(stdin)
  /\ IF Len(stdin) > INPUT_WORD_LIMIT + 1
     THEN /\ outcome' = "too_many_words"
          /\ stdin' = SubSeq(stdin, INPUT_WORD_LIMIT + 3, Len(stdin))
     ELSE /\ outcome' = "running"
          /\ stdin' = <<>>
  /\ UNCHANGED <<reg, xip, fip, halt_flag, decoded, counters, undef>>

plain_halt ==
  \E w \in Fetched :
    /\ fetch(w)
    /\ Op1(w) = 0
    /\ halt_flag' = 1
    /\ outcome' = "exit_0"
    /\ fip' = Add32(fip, 4)
    /\ reg' = zero_r0(reg)
    /\ undef' = fetch_undef
    /\ UNCHANGED <<mem, memory_reads, memory_writes, branches,
                   taken_branches>>

plain_imm_ld ==
  \E w \in Fetched :
    /\ fetch(w)
    /\ Op1(w) = 5
    /\ read_mem(Add32(reg[S1(w)], Imm16(w)), D(w))
    /\ fip' = Add32(fip, 4)
    /\ undef' = fetch_undef
    /\ UNCHANGED <<halt_flag, branches, taken_branches>>

plain_imm_st ==
  \E w \in Fetched :
    /\ fetch(w)
    /\ Op1(w) = 9
    /\ write_mem(Add32(reg[S1(w)], Imm16(w)), D(w))
    /\ fip' = Add32(fip, 4)
    /\ undef' = fetch_undef
    /\ UNCHANGED <<halt_flag, branches, taken_branches>>

plain_ld ==
  \E w \in Fetched :
    /\ fetch(w)
    /\ Op1(w) = 61 /\ Op2(w) = 5
    /\ read_mem(indexed_address(w), D(w))
    /\ fip' = Add32(fip, 4)
    /\ undef' = fetch_undef
    /\ UNCHANGED <<halt_flag, branches, taken_branches>>

plain_st ==
  \E w \in Fetched :
    /\ fetch(w)
    /\ Op1(w) = 61 /\ Op2(w) = 9
    /\ write_mem(indexed_address(w), D(w))
    /\ fip' = Add32(fip, 4)
    /\ undef' = fetch_undef
    /\ UNCHANGED <<halt_flag, branches, taken_branches>>

\* one step of the simulator without the cache
PlainNext ==
  \/ plain_get_mem
  \/ plain_halt
  \/ plain_imm_ld
  \/ plain_imm_st
  \/ imm_lda
  \/ imm_add
  \/ imm_sub
  \/ br
  \/ bcnd
  \/ ext
  \/ extu
  \/ mak
  \/ rot
  \/ plain_ld
  \/ plain_st
  \/ lda
  \/ add
  \/ sub
  \/ unknown_op
  \/ fetch_crash

(* ------------------------------- claims -------------------------------- *)

\* one pass of the main loop got its instruction word
Fetches == inst_fetches' = inst_fetches + 1

\* the memory holds the word first at address 0 and 0 everywhere else
ImageIs(first) ==
  /\ mem_word(0) = first
  /\ \A i \in DOMAIN mem \ {0} : mem[i] = 0

\* C1: at every instruction boundary of the main loop register 0 holds 0,
\* also after an instruction whose destination field is 0.
C1_RegisterZero ==
  outcome \in {"running", "exit_0"} => reg[0] = 0

\* add r0,r0,5 has completed: 5 was written to register 0 and zeroed again
C1_Witness ==
  /\ outcome = "running"
  /\ inst_fetches = 1
  /\ op1 = 28 /\ d = 0 /\ s1 = 0 /\ imm16 = 5
  /\ reg[0] = 0

\* C2: from cache_init, if all cache_access calls made so far carry the
\* same set index and the same tag, exactly the first was a miss and every
\* later one a hit: misses = 1 and hits = n - 1 after n calls.
C2_OneMissPerLine ==
  (/\ calls # <<>>
   /\ \A i \in 1 .. Len(calls) :
        /\ (calls[i][1] \div 8) % 64 = (calls[1][1] \div 8) % 64
        /\ calls[i][1] \div 512 = calls[1][1] \div 512)
  => /\ misses = 1
     /\ hits = Len(calls) - 1

\* a read, a write to another word of the line and a read again
C2_Witness ==
  /\ calls = << <<0, 0>>, <<4, 1>>, <<0, 0>> >>
  /\ misses = 1
  /\ hits = 2

\* C3: a cache_access adds 1 to write_backs exactly when it misses and the
\* way it then fills was valid and dirty before the access; otherwise
\* write_backs is unchanged.
C3_WriteBackIffDirtyVictim ==
  [][calls' # calls =>
       LET address == calls'[Len(calls')][1]
           index   == (address \div 8) % 64
           t       == address \div 512
           miss    == \A b \in Banks :
                         ~(valid[b][index] = 1 /\ tag[b][index] = t)
           victim  == lru'[index]
       IN  write_backs' =
             IF miss /\ valid[victim][index] = 1 /\ dirty[victim][index] = 1
             THEN write_backs + 1
             ELSE write_backs]_vars

\* a dirty line has been evicted, and a clean one after it
C3_Witness ==
  /\ Len(calls) = 4
  /\ calls[1] = <<0, 1>>
  /\ calls[2] = <<512, 0>>
  /\ calls[3] = <<1024, 0>>
  /\ calls[4] = <<1536, 0>>
  /\ write_backs = 1
  /\ misses = 4

\* the 26-bit field of word w as a signed number of words
Disp26(w) ==
  IF w % 67108864 >= 33554432
  THEN (w % 67108864) - 67108864
  ELSE w % 67108864

\* C4: a br at execute pointer P with a non-zero displacement of k words
\* leaves the fetch pointer at P + 4k and adds 1 to both the branch counter
\* and the taken-branch counter.
C4_BrTarget ==
  [][(Fetches /\ op1' = 48 /\ Disp26(ir') # 0) =>
       /\ xip' = fip
       /\ fip' = fip + 4 * Disp26(ir')
       /\ branches' = branches + 1
       /\ taken_branches' = taken_branches + 1]_vars

\* br -1 at address 4 has gone back to address 0
C4_Witness ==
  /\ op1 = 48
  /\ ir = br_form(-1)
  /\ xip = 4
  /\ fip = 0
  /\ branches = 1
  /\ taken_branches = 1

\* C5, as stated: a bcnd with a non-zero displacement whose mask bit at the
\* condition code 2 * (r < 0) + (r = 0) of its source register r is 0
\* leaves the fetch pointer at execute pointer + 4, leaves the taken-branch
\* counter unchanged and adds 1 to the branch counter.
C5_NotTakenBySignAndZero ==
  [][(/\ Fetches
      /\ op1' = 58
      /\ imm16' # 0
      /\ LET r  == reg[s1']
             cc == 2 * (IF r < 0 THEN 1 ELSE 0) + (IF r = 0 THEN 1 ELSE 0)
         IN  (d' \div (2 ^ cc)) % 2 = 0) =>
       /\ fip' = xip' + 4
       /\ taken_branches' = taken_branches
       /\ branches' = branches + 1]_vars

\* C5, amended: the same, with the condition code the branch computes:
\* bit 1 is the sign bit of r and bit 0 says that the low 31 bits of r are
\* all 0 (so r = 0x80000000 has code 3, not 2).
C5_NotTakenByFlag ==
  [][(/\ Fetches
      /\ op1' = 58
      /\ imm16' # 0
      /\ LET r  == reg[s1']
             cc == 2 * (IF r < 0 THEN 1 ELSE 0)
                     + (IF r = 0 \/ r = MinInt THEN 1 ELSE 0)
         IN  (d' \div (2 ^ cc)) % 2 = 0) =>
       /\ fip' = xip' + 4
       /\ taken_branches' = taken_branches
       /\ branches' = branches + 1]_vars

\* bcnd with mask 4 on r1 = 0x80000000 was not taken
C5_Witness ==
  /\ op1 = 58
  /\ d = 4
  /\ imm16 = 2
  /\ reg[1] = MinInt
  /\ outcome = "running"
  /\ branches = 1
  /\ taken_branches = 0
  /\ fip = xip + 4

\* C6: rot with shift amount 0 writes the first source register unchanged
\* into the destination register, and the shift by 32 is not evaluated.
C6_RotByZero ==
  [][(Fetches /\ op1' = 60 /\ op2' = 42 /\ s2' = 0) =>
       /\ d' # 0 => reg'[d'] = reg[s1']
       /\ "shift by 32" \notin undef']_vars

\* C7: rot by n and then rot by 32 - n of the result gives the value back,
\* for 1 <= n <= 31: after ld r1,r0,0x10; rot r2,r1,n; rot r3,r2,32-n
\* register 3 holds the word that was loaded.
C7_RotRoundTrip ==
  \A n \in 1 .. 31 :
    (/\ outcome = "running"
     /\ inst_fetches = 3
     /\ xip = 8
     /\ mem_word(0) = LdR1
     /\ mem_word(1) = tri_form(60, 42, 2, 1, 0, n)
     /\ ir = tri_form(60, 42, 3, 2, 0, 32 - n))
    => reg[3] = mem_word(4)

\* C8, as stated: the image 0x5c810010, 0, 0, ... ends normally with 2
\* instruction fetches, 1 data word read, 0 written and 0 branches.
C8_ScenarioAsStated ==
  (ImageIs(Word(23681, 16)) /\ outcome # "running") =>
    /\ outcome = "exit_0"
    /\ inst_fetches = 2
    /\ memory_reads = 1
    /\ memory_writes = 0
    /\ branches = 0

\* C8, amended: the image 0x14200010, 0, 0, ... (ld r1,r0,0x10, then halt)
\* ends normally with 2 instruction fetches, 1 data word read, 0 written and
\* 0 branches; the image 0x5c810010, 0, 0, ... (primary opcode 0x17) ends
\* with the unknown-instruction failure after 1 fetch and no data access.
C8_Scenario ==
  /\ (ImageIs(LdR1) /\ inst_fetches >= 2) =>
       /\ outcome = "exit_0"
       /\ inst_fetches = 2
       /\ memory_reads = 1
       /\ memory_writes = 0
       /\ branches = 0
       /\ calls = << <<16, 0>> >>
  /\ (ImageIs(LdR1) /\ inst_fetches = 1) =>
       /\ outcome = "running"
       /\ op1 = 5 /\ d = 1 /\ s1 = 0 /\ imm16 = 16
  /\ (ImageIs(Word(23681, 16)) /\ inst_fetches >= 1) =>
       /\ outcome = "exit_fail"
       /\ op1 = 23
       /\ inst_fetches = 1
       /\ memory_reads = 0
       /\ memory_writes = 0
       /\ branches = 0

\* the load and the halt have run
C8_Witness ==
  /\ ImageIs(LdR1)
  /\ outcome = "exit_0"
  /\ inst_fetches = 2
  /\ memory_reads = 1

\* the byte address a ld or st with fields o1, o2, ss1, ss2, imm, sc uses
ClaimAddress(o1, o2, ss1, ss2, imm, sc) ==
  IF o1 \in {5, 9} THEN Add32(reg[ss1], imm)
  ELSE IF sc = 1 THEN Add32(reg[ss1], Shl32(reg[ss2], 2))
  ELSE Add32(reg[ss1], reg[ss2])

\* the fetched word is a ld or a st, in any of its forms
IsLoadStore(o1, o2) == o1 \in {5, 9} \/ (o1 = 61 /\ o2 \in {5, 9})

\* C9: a ld or st whose effective address has a word index outside
\* 0 .. 262143 ends the run in a fault, and no register, memory word, data
\* counter, cache directory entry or cache counter is changed by it.
C9_OutOfRangeFaults ==
  [][(/\ Fetches
      /\ IsLoadStore(op1', op2')
      /\ ClaimAddress(op1', op2', s1', s2', imm16', scaled') \div 4
           \notin 0 .. 262143) =>
       /\ outcome' = "abort"
       /\ reg' = reg
       /\ mem' = mem
       /\ memory_reads' = memory_reads
       /\ memory_writes' = memory_writes
       /\ directory' = directory
       /\ cache_counters' = cache_counters]_vars

\* the scaled ld r2,r0[r1] has faulted on a negative address
C9_Witness ==
  /\ outcome = "abort"
  /\ op1 = 61 /\ op2 = 5 /\ scaled = 1
  /\ reg[1] = 2147483647
  /\ memory_reads = 1
  /\ cache_reads = 1

\* C10: every memory access that is carried out, an instruction fetch or a
\* load or a store, has its word index in 0 .. 262143.
C10_NoAccessOutOfRange ==
  [][/\ Fetches => (fip \div 4) \in 0 .. 262143
     /\ (memory_reads' # memory_reads \/ memory_writes' # memory_writes) =>
          ClaimAddress(op1', op2', s1', s2', imm16', scaled') \div 4
            \in 0 .. 262143]_vars

\* the word with primary opcode o1 and secondary opcode o2 is none of the
\* instructions of the subset
Unknown(o1, o2) ==
  \/ o1 \notin {0, 5, 9, 13, 28, 29, 48, 58, 60, 61}
  \/ o1 = 60 /\ o2 \notin {36, 38, 40, 42}
  \/ o1 = 61 /\ o2 \notin {5, 9, 13, 28, 29}

\* C11: a fetched word that is none of the instructions of the subset ends
\* the run at once with the failure exit; no register, memory word, data
\* counter or branch counter is changed, the fetch pointer is not redirected
\* (it stays at the next word), and nothing is fetched afterwards.
C11_UnknownOpcodeIsFatal ==
  [][/\ (Fetches /\ Unknown(op1', op2')) =>
          /\ outcome' = "exit_fail"
          /\ reg' = reg
          /\ mem' = mem
          /\ fip' = fip + 4
          /\ memory_reads' = memory_reads
          /\ memory_writes' = memory_writes
          /\ branches' = branches
          /\ taken_branches' = taken_branches
     /\ outcome = "exit_fail" => vars' = vars]_vars

\* after a load, the word with op1 = 0x3c and op2 = 0x29 has ended the run
C11_Witness ==
  /\ outcome = "exit_fail"
  /\ op1 = 60 /\ op2 = 41
  /\ inst_fetches = 2
  /\ reg[1] = 1
  /\ memory_reads = 1

\* C12: a br whose 26-bit field is 0 and a bcnd whose 16-bit field is 0 are
\* fatal, whatever the mask and the source register of the bcnd; at the
\* fault the branch has changed neither the branch counter nor the
\* taken-branch counter nor the fetch pointer, and the run goes no further.
C12_ZeroDisplacementIsFatal ==
  [][/\ (/\ Fetches
         /\ \/ op1' = 48 /\ ir' % 67108864 = 0
            \/ op1' = 58 /\ ir' % 65536 = 0) =>
          /\ outcome' = "abort"
          /\ branches' = branches
          /\ taken_branches' = taken_branches
          /\ fip' = fip + 4
     /\ outcome = "abort" => vars' = vars]_vars

\* a bcnd with mask 0, which is never taken, has faulted on displacement 0
C12_Witness ==
  /\ outcome = "abort"
  /\ op1 = 58 /\ d = 0 /\ s1 = 1
  /\ ir % 65536 = 0
  /\ reg[1] = MinInt
  /\ branches = 0
  /\ fip = xip + 4

\* C13: the exit status is 0 exactly when the run ended by a halt; every
\* other end (unknown instruction, out-of-range access, zero displacement,
\* more than 256 input words) gives a status other than 0.
C13_ExitStatus ==
  outcome \notin {"start", "running"} =>
    (exit_status(outcome) = 0 <=> (halt_flag = 1 /\ op1 = 0))

\* C14: a halt takes the loop from running to halted and is counted as one
\* fetch; once halted nothing changes any more, so nothing is fetched; and
\* no other instruction takes the loop from running to halted.
C14_HaltIsTerminal ==
  [][/\ (Fetches /\ op1' = 0) =>
          /\ halt_flag = 0
          /\ halt_flag' = 1
          /\ outcome' = "exit_0"
     /\ (halt_flag = 0 /\ halt_flag' = 1) =>
          /\ op1' = 0
          /\ inst_fetches' = inst_fetches + 1
     /\ halt_flag = 1 => vars' = vars]_vars

\* the third instruction was a halt
C14_Witness ==
  /\ halt_flag = 1
  /\ outcome = "exit_0"
  /\ op1 = 0
  /\ inst_fetches = 3
  /\ memory_reads = 2

\* C15: in every state of the cache directory reached from cache_init by
\* cache_access calls, a way whose dirty bit is set has its valid bit set.
C15_DirtyImpliesValid ==
  \A b \in Banks, i \in Lines : dirty[b][i] = 1 => valid[b][i] = 1

\* set 0 holds a dirty line in way 0 and a clean one in way 1
C15_Witness ==
  /\ Len(calls) = 3
  /\ valid[0][0] = 1 /\ dirty[0][0] = 1
  /\ valid[1][0] = 1 /\ dirty[1][0] = 0
  /\ hits = 1

\* the fetched word is an lda, in any of its forms
IsLda(o1, o2) == o1 = 13 \/ (o1 = 61 /\ o2 = 13)

\* the address an lda with fields o1, ss1, ss2, imm, sc computes
LdaAddress(o1, ss1, ss2, imm, sc) ==
  IF o1 = 13 THEN Add32(reg[ss1], imm)
  ELSE IF sc = 1 THEN Add32(reg[ss1], Shl32(reg[ss2], 2))
  ELSE Add32(reg[ss1], reg[ss2])

\* C16: an lda, immediate, register-indexed or scaled, puts the effective
\* address into its destination register (register 0 stays 0) and changes
\* nothing else: no other register, no memory word, no data counter, no
\* cache directory entry and no cache counter; this is so whatever the
\* address, which is never a fault.
C16_LdaOnlyWritesRegister ==
  [][(Fetches /\ IsLda(op1', op2')) =>
       /\ outcome' = "running"
       /\ \A r \in 0 .. 31 :
            reg'[r] = IF r = d' /\ r # 0
                      THEN LdaAddress(op1', s1', s2', imm16', scaled')
                      ELSE reg[r]
       /\ mem' = mem
       /\ memory_reads' = memory_reads
       /\ memory_writes' = memory_writes
       /\ directory' = directory
       /\ cache_counters' = cache_counters]_vars

\* the scaled lda r2,r0[r1] has computed 0x7fffffff << 2, an address below 0
C16_Witness ==
  /\ outcome = "running"
  /\ op1 = 61 /\ op2 = 13 /\ scaled = 1 /\ d = 2
  /\ reg[1] = 2147483647
  /\ reg[2] = -4
  /\ memory_reads = 1
  /\ cache_reads = 1

\* C17: a call of cache_stats changes no cache counter and no directory
\* entry and reports the five counters as they are, so a call made while
\* the counters are as last reported (no cache_access in between) reports
\* the same values again.
C17_StatsIsPureRead ==
  [][Len(printed') > Len(printed) =>
       /\ directory' = directory
       /\ cache_counters' = cache_counters
       /\ printed'[Len(printed')] = cache_counters
       /\ (Len(printed) > 0 /\ printed[Len(printed)] = cache_counters) =>
            printed'[Len(printed')] = printed[Len(printed)]]_vars

\* one read, then two reports of 1 read, 0 writes, 0 hits, 1 miss, 0
\* write-backs
C17_Witness ==
  /\ Len(calls) = 1
  /\ Len(printed) = 2
  /\ printed[1] = <<1, 0, 0, 1, 0>>
  /\ printed[2] = printed[1]

\* the last of the calls made so far that used the set index and the tag of
\* way w of that set
LastUse(w, index) ==
  CHOOSE i \in 1 .. Len(calls) :
    /\ (calls[i][1] \div 8) % 64 = index
    /\ calls[i][1] \div 512 = tag[w][index]
    /\ \A j \in (i + 1) .. Len(calls) :
         ~(/\ (calls[j][1] \div 8) % 64 = index
           /\ calls[j][1] \div 512 = tag[w][index])

C19_DirtyAfterAccess ==
  [][calls' # calls =>
       LET address == calls'[Len(calls')][1]
           type    == calls'[Len(calls')][2]
           index   == (address \div 8) % 64
           t       == address \div 512
           miss    == \A b \in Banks :
                         ~(valid[b][index] = 1 /\ tag[b][index] = t)
       IN  \A w \in Banks :
             (valid'[w][index] = 1 /\ tag'[w][index] = t) =>
               /\ type = 1 => dirty'[w][index] = 1
               /\ (type = 0 /\ miss) => dirty'[w][index] = 0
               /\ (type = 0 /\ ~miss) =>
                    dirty'[w][index] = dirty[w][index]]_vars

\* a read miss has replaced the dirty line of tag 0 by a clean line of tag 2
C19_Witness ==
  /\ calls = << <<0, 1>>, <<512, 0>>, <<1024, 0>> >>
  /\ valid[0][0] = 1
  /\ tag[0][0] = 2
  /\ dirty[0][0] = 0
  /\ write_backs = 1

\* the 16-bit field of word w as a signed number of words
Disp16(w) ==
  IF w % 65536 >= 32768 THEN (w % 65536) - 65536 ELSE w % 65536

\* what C20 says of a bcnd step on source value r whose condition code is cc
BcndAsClaimed(r, cc) ==
  LET mask  == d'
      taken == /\ fip' = xip' + 4 * Disp16(ir')
               /\ taken_branches' = taken_branches + 1
  IN  /\ taken <=> (mask \div (2 ^ cc)) % 2 = 1
      /\ mask = 2 => (taken <=> r = 0)
      /\ mask = 13 => (taken <=> r # 0)
      /\ mask = 1 => (taken <=> r > 0)
      /\ mask = 12 => (taken <=> r < 0)
      /\ mask = 3 => (taken <=> r >= 0)
      /\ mask = 14 => (taken <=> r <= 0)
      /\ mask = 15 => taken
      /\ mask = 0 => ~taken

\* C20, as stated: a bcnd with a non-zero displacement is taken (fetch
\* pointer = execute pointer + 4 * displacement, taken-branch counter + 1)
\* exactly when the mask bit at the condition code 2 * (r < 0) + (r = 0) of
\* its source value r is 1; so mask 2 is taken iff r = 0, 13 iff r # 0, 1 iff
\* r > 0, 12 iff r < 0, 3 iff r >= 0, 14 iff r <= 0, 15 always and 0 never.
C20_TakenBySignAndZero ==
  [][(Fetches /\ op1' = 58 /\ Disp16(ir') # 0) =>
       LET r == reg[s1']
       IN  BcndAsClaimed(r, 2 * (IF r < 0 THEN 1 ELSE 0)
                              + (IF r = 0 THEN 1 ELSE 0))]_vars

\* C20, amended: the same, with the condition code the branch computes:
\* bit 1 is the sign bit of r and bit 0 says that the low 31 bits of r are
\* all 0 (so r = 0x80000000 has code 3); the table of masks is as stated.
C20_TakenByFlag ==
  [][(Fetches /\ op1' = 58 /\ Disp16(ir') # 0) =>
       LET r == reg[s1']
       IN  BcndAsClaimed(r, 2 * (IF r < 0 THEN 1 ELSE 0)
                              + (IF r = 0 \/ r = MinInt THEN 1 ELSE 0))]_vars

\* bcnd with mask 8 on r1 = 0x80000000 was taken
C20_Witness ==
  /\ op1 = 58
  /\ d = 8
  /\ reg[1] = MinInt
  /\ outcome = "running"
  /\ branches = 1
  /\ taken_branches = 1
  /\ fip = xip + 8

\* C21, as stated: the condition code a bcnd computes from its source value
\* r is 2 * (sign bit of r) + (1 if r = 0, else 0); the code 3 is never
\* produced, so a bcnd with mask 8 is never taken.
C21_FlagBySignAndZero ==
  [][(Fetches /\ op1' = 58 /\ Disp16(ir') # 0) =>
       LET r == reg[s1']
       IN  /\ bcnd_flag(r) = 2 * (IF r < 0 THEN 1 ELSE 0)
                               + (IF r = 0 THEN 1 ELSE 0)
           /\ bcnd_flag(r) # 3
           /\ d' = 8 => taken_branches' = taken_branches]_vars

\* C21, amended: the condition code is 2 * (sign bit of r) + (1 if the low
\* 31 bits of r are all 0, else 0); the code 3 is produced for r =
\* 0x80000000 and for no other value, so a bcnd with mask 8 is taken exactly
\* when r = 0x80000000.
C21_FlagBySignAndLowBits ==
  [][(Fetches /\ op1' = 58 /\ Disp16(ir') # 0) =>
       LET r == reg[s1']
       IN  /\ bcnd_flag(r) = 2 * (IF r < 0 THEN 1 ELSE 0)
                               + (IF r = 0 \/ r = MinInt THEN 1 ELSE 0)
           /\ bcnd_flag(r) = 3 <=> r = MinInt
           /\ d' = 8 =>
                (taken_branches' = taken_branches + 1 <=> r = MinInt)]_vars

\* bcnd with mask 0xd on r1 = 0x80000000, whose condition code is 3, was
\* taken
C21_Witness ==
  /\ op1 = 58
  /\ d = 13
  /\ reg[1] = MinInt
  /\ bcnd_flag(reg[1]) = 3
  /\ outcome = "running"
  /\ taken_branches = 1

\* C22: cache reads = data words read and cache writes = data words written
\* after every step; a ld or st that is carried out makes exactly one
\* cache_access, with the byte address of its memory access and type 0 for
\* a load, 1 for a store, and no other instruction makes one.
C22_CacheAccessPerDataAccess ==
  [][/\ cache_reads' = memory_reads'
     /\ cache_writes' = memory_writes'
     /\ calls' =
          IF /\ Fetches
             /\ IsLoadStore(op1', op2')
             /\ ClaimAddress(op1', op2', s1', s2', imm16', scaled') \div 4
                  \in 0 .. 262143
          THEN Append(calls,
                      <<ClaimAddress(op1', op2', s1', s2', imm16', scaled'),
                        IF op1' = 5 \/ (op1' = 61 /\ op2' = 5)
                        THEN 0 ELSE 1>>)
          ELSE calls]_vars

\* ld r1,r0,0x10 and st r1,r0,0x210 have run
C22_Witness ==
  /\ calls = << <<16, 0>>, <<528, 1>> >>
  /\ memory_reads = 1 /\ cache_reads = 1
  /\ memory_writes = 1 /\ cache_writes = 1
  /\ inst_fetches = 2

\* C23: the directory has 32-byte lines, 32 sets and 4 ways: an access
\* whose byte address differs from that of the access before it only in
\* the low 5 bits falls in the same line and hits.
C23_ThirtyTwoByteLines ==
  [][(/\ calls' # calls
      /\ calls # <<>>
      /\ calls'[Len(calls')][1] \div 32 = calls[Len(calls)][1] \div 32) =>
       /\ hits' = hits + 1
       /\ misses' = misses]_vars

\* C24: the fetch pointer and the execute pointer are multiples of 4 in
\* every state; the execute pointer of an instruction is the address it was
\* fetched from, and the fetch pointer after it is execute pointer + 4
\* unless it was a br or a bcnd that was taken.
C24_PointersAligned ==
  [][/\ fip % 4 = 0 /\ xip % 4 = 0
     /\ fip' % 4 = 0 /\ xip' % 4 = 0
     /\ Fetches =>
          /\ xip' = fip
          /\ fip' # xip' + 4 =>
               \/ op1' = 48
               \/ op1' = 58 /\ taken_branches' = taken_branches + 1]_vars

\* the bcnd with mask 0xf at address 4 has gone back to address 0
C24_Witness ==
  /\ op1 = 58
  /\ d = 15
  /\ xip = 4
  /\ fip = 0
  /\ taken_branches = 1
  /\ outcome = "running"

\* v >> n with the sign propagated: the floor of v / 2^n
ArithmeticShift(v, n) ==
  IF n = 0 THEN v ELSE (v \div (2 ^ (n - 1))) \div 2

\* v >> n with zeroes shifted in: for v < 0 the sign bit is taken off,
\* the rest shifted, and the sign bit put back at bit 31 - n
LogicalShift(v, n) ==
  IF v >= 0 \/ n = 0 THEN ArithmeticShift(v, n)
  ELSE ArithmeticShift(v - MinInt, n) + 2 ^ (31 - n)

\* v << n, the bits above bit 31 dropped: bits 0 .. 30 - n of v go to bits
\* n .. 30 and bit 31 - n of v becomes the sign
LeftShift(v, n) ==
  IF n = 0 THEN v
  ELSE (IF n = 31 THEN 0 ELSE (v % (2 ^ (31 - n))) * (2 ^ n))
         + (IF (v \div (2 ^ (31 - n))) % 2 = 1 THEN MinInt ELSE 0)

\* C25: for every source value v and shift amount n in 0 .. 31 (the low 5
\* bits of the word) ext writes the arithmetic right shift of v by n, extu
\* the logical right shift and mak the left shift truncated to 32 bits
\* (register 0 stays 0); memory, the branch and data counters are unchanged
\* and the pointers advance as for any instruction that is not a branch.
C25_Shifts ==
  [][(Fetches /\ op1' = 60 /\ op2' \in {36, 38, 40}) =>
       LET v == reg[s1']
           n == ir' % 32
       IN  /\ \A r \in 0 .. 31 :
                reg'[r] = IF r = d' /\ r # 0
                          THEN CASE op2' = 36 -> ArithmeticShift(v, n)
                                 [] op2' = 38 -> LogicalShift(v, n)
                                 [] op2' = 40 -> LeftShift(v, n)
                          ELSE reg[r]
           /\ mem' = mem
           /\ xip' = fip
           /\ fip' = fip + 4
           /\ memory_reads' = memory_reads
           /\ memory_writes' = memory_writes
           /\ branches' = branches
           /\ taken_branches' = taken_branches
           /\ cache_counters' = cache_counters]_vars

\* ext r2,r1,4 on r1 = 0x80000000 has written 0xf8000000
C25_Witness ==
  /\ op1 = 60 /\ op2 = 36 /\ s2 = 4 /\ d = 2
  /\ reg[1] = MinInt
  /\ reg[2] = -134217728
  /\ outcome = "running"

\* C26: after cache_init and any cache_access calls, hits + misses = cache
\* reads + cache writes = the number of calls: every access is counted as
\* one read or one write and as one hit or one miss.
C26_EveryAccessCountedOnce ==
  /\ hits + misses = cache_reads + cache_writes
  /\ cache_reads + cache_writes = Len(calls)
  /\ cache_reads = Cardinality({i \in 1 .. Len(calls) : calls[i][2] = 0})

\* a hit in way 1 has been counted
C26_Witness ==
  /\ calls = << <<0, 1>>, <<512, 0>>, <<512, 1>> >>
  /\ hits = 1
  /\ misses = 2
  /\ cache_reads = 1
  /\ cache_writes = 2

\* C27: no set holds the same tag in two valid ways.
C27_NoDuplicateTag ==
  \A i \in Lines :
    (valid[0][i] = 1 /\ valid[1][i] = 1) => tag[0][i] # tag[1][i]

\* both ways of set 0 are valid and the tag of way 1 has hit
C27_Witness ==
  /\ Len(calls) = 3
  /\ valid[0][0] = 1 /\ valid[1][0] = 1
  /\ tag[0][0] = 0 /\ tag[1][0] = 1
  /\ lru[0] = 1
  /\ hits = 1

\* every step of the simulator with the cache is, on the processor state, a
\* step of the simulator without it
StepsOfPlain == [][PlainNext]_vars

\* C28: the simulator with the cache and the simulator without it go
\* through the same registers, memory, pointers, outcome and execution
\* counters for every memory image: every step of the first is a step of
\* the second on the processor state, and the instruction executed is the
\* word the image holds at the fetch pointer (0 where nothing was loaded),
\* never anything else the process holds, such as cache state.
C28_SameRunAsPlain ==
  [][/\ PlainNext
     /\ Fetches =>
          ir' = IF fip \div 4 \in DOMAIN mem THEN mem[fip \div 4] ELSE 0]_vars

====
